---- MODULE Spec2Model ----
(***************************************************************************)
(* The blog views of djangocms_blog/views.py as a state machine: one view  *)
(* instance serves one request against a store of posts, categories, tags  *)
(* and users.  A request is dispatched to a view class, and the generic    *)
(* view machinery then calls get, get_queryset, get_context_data and       *)
(* get_template_names in that order; an uncaught exception ends it.        *)
(***************************************************************************)
EXTENDS Integers, Sequences, FiniteSets, TLC

\* Largest number of stored posts.
MaxPosts == 2

\* Largest number of direct method calls on one CategoryEntriesView instance.
MaxCalls == 3

\* Python's None, and a value that is present: optionals are sets of at most one value.
None == {}
Some(v) == {v}
The(s) == CHOOSE v \in s : TRUE

-----------------------------------------------------------------------------
\* The store.

\* Post rows: namespace, languages with a translation, publish flag, publish
\* date, author, tags, categories and translated slug.
Post(pk, ns, langs, pub, y, m, author, tags, cats, slug) ==
    [pk |-> pk, app_config |-> ns, languages |-> langs, publish |-> pub,
     date_published |-> [year |-> y, month |-> m], author |-> author,
     tags |-> tags, categories |-> cats, slug |-> slug]

PostUniverse ==
    { Post(1, "blog1", {"en"},       TRUE,  2023, 5, "alice", {"django"},           {1},    "hello"),
      Post(2, "blog1", {"en"},       FALSE, 2023, 5, "alice", {"django"},           {1},    "draft"),
      Post(3, "blog1", {"en", "it"}, TRUE,  2023, 6, "carol", {},                   {2},    "second"),
      Post(4, "blog2", {"en"},       TRUE,  2023, 5, "alice", {"django"},           {1},    "elsewhere"),
      Post(5, "blog1", {"it"},       TRUE,  2022, 5, "alice", {"python"},           {1, 3}, "italiano"),
      Post(6, "blog1", {"en"},       TRUE,  2022, 6, "carol", {"django", "python"}, {},     "old"),
      Post(7, "blog2", {"en", "it"}, FALSE, 2022, 5, "carol", {},                   {2},    "hidden"),
      Post(8, "blog1", {"en"},       FALSE, 2022, 6, "carol", {"python"},           {3},    "unlisted") }

\* BlogCategory rows: "news" is one category, "dup" is the slug of two.
BlogCategory ==
    { [pk |-> 1, slug |-> "news", languages |-> {"en", "it"}],
      [pk |-> 2, slug |-> "dup",  languages |-> {"en"}],
      [pk |-> 3, slug |-> "dup",  languages |-> {"en"}] }

\* User rows, by USERNAME_FIELD.
User == { [username |-> "alice"], [username |-> "carol"] }

\* Tag rows of the tagging application.
TagRows == { [slug |-> "django"], [slug |-> "python"] }

\* The names the module binds: its imports and its own definitions.
ModuleGlobals ==
    {"os", "AppConfigMixin", "get_user_model", "ImproperlyConfigured", "reverse",
     "now", "get_language", "DetailView", "ListView", "TranslatableSlugMixin",
     "ViewUrlMixin", "BlogCategory", "Post", "get_setting", "User",
     "AjaxListMixin", "BaseBlogView", "PostListView", "PostDetailView", "PostArchiveView",
     "TaggedListView", "AuthorEntriesView", "CategoryEntriesView"}

Languages == {"en", "it"}

\* (namespace, config) pairs that AppConfigMixin resolves for a request.
AppConfigs ==
    [namespace : {"blog1", "blog2"}, template_prefix : {"", "custom"}, paginate_by : {0, 5}]
AppInstances ==
    { <<c.namespace, Some(c)>> : c \in AppConfigs } \cup { <<"", None>> }

\* Global settings read through get_setting, at the package's defaults.
PAGINATION == 10
POSTS_LIST_TRUNCWORDS_COUNT == 100
USE_PLACEHOLDER == TRUE

ListViews ==
    {"PostListView", "PostArchiveView", "TaggedListView", "AuthorEntriesView",
     "CategoryEntriesView"}
Views == ListViews \cup {"PostDetailView"}

\* request.toolbar: missing, or a toolbar with its edit_mode flag.
Toolbars == {None} \cup { Some([edit_mode |-> e]) : e \in BOOLEAN }

\* URL segments are digit strings.
YearSegments == { <<2, 0, 2, 3>>, <<2, 0, 2, 2>> }
MonthSegments == { <<5>>, <<0, 5>>, <<6>> }

\* The keyword arguments the URL patterns hand to each view.
KwargsOf(v) ==
    CASE v = "PostListView" -> { <<>> }
      [] v = "PostDetailView" -> { [slug |-> s] : s \in {"hello", "draft", "nosuch"} }
      [] v = "PostArchiveView" ->
            { <<>> } \cup { [year |-> y] : y \in YearSegments }
                     \cup { [year |-> y, month |-> m] : y \in YearSegments, m \in MonthSegments }
      [] v = "TaggedListView" -> { [tag |-> t] : t \in {"django", "nosuch"} }
      [] v = "AuthorEntriesView" -> { [username |-> u] : u \in {"alice", "nobody"} }
      [] v = "CategoryEntriesView" -> { [category |-> c] : c \in {"news", "dup", "nosuch"} }

\* The keyword arguments of as_view: a list view may be given its page_template.
InitKwargsOf(v) ==
    IF v \in ListViews THEN { <<>>, [page_template |-> Some("blog/fragment.html")] } ELSE { <<>> }

\* request.REQUEST: the query parameters.
QueryDicts == { <<>> } \cup { [querystring_key |-> k] : k \in {"page", "other"} }

\* int() of a digit string.
RECURSIVE int(_)
int(ds) == IF ds = <<>> THEN 0 ELSE 10 * int(SubSeq(ds, 1, Len(ds) - 1)) + ds[Len(ds)]

\* dict.get(key, default)
DictGet(d, k, default) == IF k \in DOMAIN d THEN d[k] ELSE default

\* os.path.join of a directory without a trailing separator and a relative name.
os_path_join(a, b) == IF a = "" THEN b ELSE a \o "/" \o b

-----------------------------------------------------------------------------
VARIABLES
    posts,          \* the stored Post rows
    view,           \* the view class serving the request
    request,        \* toolbar, is_ajax, REQUEST, and the attributes the views set on it
    language,       \* get_language()
    kwargs,         \* self.kwargs
    namespace,      \* self.namespace
    config,         \* self.config
    initkwargs,     \* the keyword arguments of as_view
    page_template,  \* self.page_template
    _category,      \* self._category
    object,         \* self.object (PostDetailView)
    object_list,    \* the queryset get_queryset returned last
    paginate_by,    \* the page size handed to the paginator
    context,        \* the template context
    template,       \* the selected template names
    toolbar_object, \* what toolbar.set_object received
    events,         \* the calls made so far, in order
    outcome,        \* how the request ended
    pc              \* the next step of the request

vars == <<posts, view, request, language, kwargs, namespace, config, initkwargs, page_template,
          _category, object, object_list, paginate_by, context, template,
          toolbar_object, events, outcome, pc>>

request_vars == <<view, request, language, kwargs, namespace, config, initkwargs>>

-----------------------------------------------------------------------------
\* Manager and queryset operations.

\* Post manager: rows of one app namespace.
qs_namespace(qs, ns) == { p \in qs : p.app_config = ns }

\* parler: rows with a translation in the language.
active_translations(qs, lang) == { p \in qs : lang \in p.languages }

\* Post manager: rows in published state.
published(qs) == { p \in qs : p.publish }

\* getattr(request, 'toolbar', False) and request.toolbar.edit_mode
edit_mode(req) == req.toolbar # None /\ The(req.toolbar).edit_mode

\* hasattr(request, 'toolbar')
has_toolbar(req) == req.toolbar # None


\* QuerySet.get(): the single row, or DoesNotExist / MultipleObjectsReturned.
QuerySetGet(rows) ==
    IF rows = {} THEN [exc |-> "DoesNotExist", value |-> None]
    ELSE IF Cardinality(rows) > 1 THEN [exc |-> "MultipleObjectsReturned", value |-> None]
    ELSE [exc |-> "", value |-> rows]

\* get_queryset with the publish filter left out.
BaseBlogView_get_queryset_unfiltered(db, req, ns, lang) ==
    active_translations(qs_namespace(db, ns), lang)

\* get_queryset with the translation filter left out.
BaseBlogView_get_queryset_any_language(db, req, ns, lang) ==
    LET queryset == qs_namespace(db, ns)
    IN  IF ~edit_mode(req) THEN published(queryset) ELSE queryset

\* BaseBlogView.get_queryset: namespace, active translations, and the publish
\* filter unless the toolbar is in edit mode.
BaseBlogView_get_queryset(db, req, ns, lang) ==
    LET queryset == active_translations(qs_namespace(db, ns), lang)
    IN  IF ~edit_mode(req) THEN published(queryset) ELSE queryset

\* PostDetailView.get_queryset: every post, published only unless editing.
PostDetailView_get_queryset(db, req) ==
    LET queryset == db
    IN  IF ~edit_mode(req) THEN published(queryset) ELSE queryset

\* TranslatableSlugMixin.get_object over PostDetailView.get_queryset: the post
\* with the translated slug, or Http404.
PostDetailView_get_object(db, req, lang, kw) ==
    LET r == QuerySetGet({ p \in active_translations(PostDetailView_get_queryset(db, req), lang) :
                             p.slug = kw.slug })
    IN  IF r.exc = "DoesNotExist" THEN [exc |-> "Http404", value |-> None] ELSE r

\* The archive with the year filter applied only when no month is given.
PostArchiveView_get_queryset_elif(db, req, ns, lang, kw) ==
    LET qs == BaseBlogView_get_queryset(db, req, ns, lang)
    IN  IF "month" \in DOMAIN kw
        THEN { p \in qs : p.date_published.month = int(kw.month) }
        ELSE IF "year" \in DOMAIN kw
        THEN { p \in qs : p.date_published.year = int(kw.year) }
        ELSE qs

\* PostArchiveView.get_queryset: the month and year filters of the URL.
PostArchiveView_get_queryset(db, req, ns, lang, kw) ==
    LET qs == BaseBlogView_get_queryset(db, req, ns, lang)
        qs1 == IF "month" \in DOMAIN kw
               THEN { p \in qs : p.date_published.month = int(kw.month) } ELSE qs
        qs2 == IF "year" \in DOMAIN kw
               THEN { p \in qs1 : p.date_published.year = int(kw.year) } ELSE qs1
    IN  qs2

\* TaggedListView.get_queryset
TaggedListView_get_queryset(db, req, ns, lang, kw) ==
    LET qs == BaseBlogView_get_queryset(db, req, ns, lang)
    IN  { p \in qs : kw.tag \in p.tags }

\* AuthorEntriesView.get_queryset
AuthorEntriesView_get_queryset(db, req, ns, lang, kw) ==
    LET qs == BaseBlogView_get_queryset(db, req, ns, lang)
    IN  IF "username" \in DOMAIN kw THEN { p \in qs : p.author = kw.username } ELSE qs

\* The category property with first() in place of get().
category_first(cached, lang, kw) ==
    IF cached = None
    THEN LET rows == { c \in active_translations(BlogCategory, lang) : c.slug = kw.category }
             r == IF rows = {} THEN QuerySetGet(rows)
                  ELSE [exc |-> "", value |-> Some(CHOOSE c \in rows : \A d \in rows : c.pk <= d.pk)]
         IN  [exc |-> r.exc, value |-> r.value, cache |-> r.value,
              log |-> <<"category.get">>]
    ELSE [exc |-> "", value |-> cached, cache |-> cached, log |-> <<>>]

\* The category property without its memo: every read is a lookup.
category_uncached(cached, lang, kw) ==
    LET r == QuerySetGet({ c \in active_translations(BlogCategory, lang) :
                             c.slug = kw.category })
    IN  [exc |-> r.exc, value |-> r.value, cache |-> r.value,
         log |-> <<"category.get">>]

\* The category property: the memoized category, else one lookup by translated
\* slug in the active language.
category(cached, lang, kw) ==
    IF cached = None
    THEN LET r == QuerySetGet({ c \in active_translations(BlogCategory, lang) :
                                  c.slug = kw.category })
         IN  [exc |-> r.exc, value |-> r.value, cache |-> r.value,
              log |-> <<"category.get">>]
    ELSE [exc |-> "", value |-> cached, cache |-> cached, log |-> <<>>]

\* CategoryEntriesView.get_queryset, given the category it read.
CategoryEntriesView_get_queryset(db, req, ns, lang, kw, cat) ==
    LET qs == BaseBlogView_get_queryset(db, req, ns, lang)
    IN  IF "category" \in DOMAIN kw THEN { p \in qs : The(cat).pk \in p.categories } ELSE qs

\* BaseBlogView.get_template_names
BaseBlogView_get_template_names(cfg, base_template_name) ==
    LET template_path == IF cfg # None /\ The(cfg).template_prefix # ""
                         THEN The(cfg).template_prefix ELSE "djangocms_blog"
    IN  os_path_join(template_path, base_template_name)

base_template_name(v) == IF v = "PostDetailView" THEN "post_detail.html" ELSE "post_list.html"

\* str.lower() of the model's object name.
lower(s) == IF s = "Post" THEN "post" ELSE s

\* Post._meta, the ListView template_name_suffix and the mixin's suffix.
opts == [app_label |-> "djangocms_blog", object_name |-> "Post"]
template_name_suffix == "_list"
page_template_suffix == "_page"
key == "page"

\* AjaxListMixin.get_page_template
get_page_template ==
    opts.app_label \o "/" \o lower(opts.object_name) \o template_name_suffix
        \o page_template_suffix \o ".html"

\* The page_template AjaxListMixin.get_context_data leaves on the instance.
AjaxListMixin_page_template(pt) == IF pt = None THEN Some(get_page_template) ELSE pt

\* get_template_names that looks at the AJAX marker alone.
AjaxListMixin_get_template_names_any_key(req, pt, cfg, v) ==
    IF req.is_ajax
    THEN pt
    ELSE Some(BaseBlogView_get_template_names(cfg, base_template_name(v)))

\* AjaxListMixin.get_template_names: the page template for an AJAX request
\* with the view's key, else the next get_template_names.  The result is the
\* one name the response resolves, whether returned in a list or alone.
AjaxListMixin_get_template_names(req, pt, cfg, v) ==
    LET querystring_key == DictGet(req.REQUEST, "querystring_key", key)
    IN  IF req.is_ajax /\ querystring_key = key
        THEN pt
        ELSE Some(BaseBlogView_get_template_names(cfg, base_template_name(v)))

\* get_paginate_by: PostListView reads the app config, the other list views
\* keep the class attribute.
get_paginate_by(v, cfg) ==
    IF v = "PostListView"
    THEN IF cfg # None /\ The(cfg).paginate_by # 0 THEN The(cfg).paginate_by ELSE PAGINATION
    ELSE PAGINATION

\* ListView.get_context_data: the object list, the paginator and the keyword
\* arguments; AjaxListMixin adds page_template, the views TRUNCWORDS_COUNT.
list_context(kw, ol, page_size, pt) ==
    ("TRUNCWORDS_COUNT" :> POSTS_LIST_TRUNCWORDS_COUNT) @@ ("page_template" :> The(pt))
        @@ kw @@ ("paginator" :> [per_page |-> page_size]) @@ ("object_list" :> ol)
        @@ ("post_list" :> ol)

-----------------------------------------------------------------------------
\* A request before the views touch it.
EmptyRequest ==
    [toolbar |-> None, is_ajax |-> FALSE, REQUEST |-> <<>>,
     current_namespace |-> None, current_post |-> None]

Init ==
    /\ posts \in { db \in SUBSET PostUniverse : Cardinality(db) <= MaxPosts }
    /\ view = "none"
    /\ request = EmptyRequest
    /\ language = "en"
    /\ kwargs = <<>>
    /\ namespace = ""
    /\ config = None
    /\ initkwargs = <<>>
    /\ page_template = None
    /\ _category = None
    /\ object = None
    /\ object_list = None
    /\ paginate_by = None
    /\ context = None
    /\ template = None
    /\ toolbar_object = None
    /\ events = <<>>
    /\ outcome = "pending"
    /\ pc = "idle"

\* setattr(self.request, CURRENT_NAMESPACE, self.config), the last statement of
\* BaseBlogView.get_queryset.
SetCurrentNamespace == request' = [request EXCEPT !.current_namespace = Some(config)]

Raise(exc, log, exc_pc) ==
    /\ outcome' = exc
    /\ events' = events \o log
    /\ pc' = exc_pc

\* The URL resolver and AppConfigMixin.dispatch: a view instance for the request.
Dispatch ==
    /\ pc = "idle"
    /\ \E v \in Views, app \in AppInstances, tb \in Toolbars, lang \in Languages,
          ajax \in BOOLEAN, q \in QueryDicts :
         \E kw \in KwargsOf(v), init \in InitKwargsOf(v) :
            /\ view' = v
            /\ request' = [EmptyRequest EXCEPT !.toolbar = tb, !.is_ajax = ajax, !.REQUEST = q]
            /\ language' = lang
            /\ kwargs' = kw
            /\ namespace' = app[1]
            /\ config' = app[2]
            /\ initkwargs' = init
            /\ page_template' = DictGet(init, "page_template", None)
            /\ pc' = IF v \in {"PostDetailView", "CategoryEntriesView"} THEN "get" ELSE "get_queryset"
    /\ UNCHANGED <<posts, _category, object, object_list, paginate_by, context, template,
                   toolbar_object, events, outcome>>

\* PostListView (BaseBlogView.get_queryset), called by ListView.get.
PostListView_get_queryset ==
    /\ pc = "get_queryset" /\ view = "PostListView"
    /\ object_list' = Some(BaseBlogView_get_queryset(posts, request, namespace, language))
    /\ SetCurrentNamespace
    /\ events' = Append(events, "get_queryset")
    /\ pc' = "get_context_data"
    /\ UNCHANGED <<posts, view, language, kwargs, namespace, config, initkwargs, page_template, _category,
                   object, paginate_by, context, template, toolbar_object, outcome>>

PostArchiveView_get_queryset_step ==
    /\ pc = "get_queryset" /\ view = "PostArchiveView"
    /\ object_list' = Some(PostArchiveView_get_queryset(posts, request, namespace, language, kwargs))
    /\ SetCurrentNamespace
    /\ events' = Append(events, "get_queryset")
    /\ pc' = "get_context_data"
    /\ UNCHANGED <<posts, view, language, kwargs, namespace, config, initkwargs, page_template, _category,
                   object, paginate_by, context, template, toolbar_object, outcome>>

TaggedListView_get_queryset_step ==
    /\ pc = "get_queryset" /\ view = "TaggedListView"
    /\ object_list' = Some(TaggedListView_get_queryset(posts, request, namespace, language, kwargs))
    /\ SetCurrentNamespace
    /\ events' = Append(events, "get_queryset")
    /\ pc' = "get_context_data"
    /\ UNCHANGED <<posts, view, language, kwargs, namespace, config, initkwargs, page_template, _category,
                   object, paginate_by, context, template, toolbar_object, outcome>>

AuthorEntriesView_get_queryset_step ==
    /\ pc = "get_queryset" /\ view = "AuthorEntriesView"
    /\ object_list' = Some(AuthorEntriesView_get_queryset(posts, request, namespace, language, kwargs))
    /\ SetCurrentNamespace
    /\ events' = Append(events, "get_queryset")
    /\ pc' = "get_context_data"
    /\ UNCHANGED <<posts, view, language, kwargs, namespace, config, initkwargs, page_template, _category,
                   object, paginate_by, context, template, toolbar_object, outcome>>

\* The context of a list view: ListView and AjaxListMixin.get_context_data
\* under the view's own keyword arguments; the instance keeps page_template.
ListContext(kw, log, ok_pc) ==
    /\ page_template' = AjaxListMixin_page_template(page_template)
    /\ paginate_by' = Some(get_paginate_by(view, config))
    /\ context' = Some(list_context(kw, The(object_list), get_paginate_by(view, config),
                                    AjaxListMixin_page_template(page_template)))
    /\ events' = events \o log
    /\ pc' = ok_pc
    /\ UNCHANGED outcome

PostListView_get_context_data ==
    /\ pc = "get_context_data" /\ view = "PostListView"
    /\ ListContext(<<>>, <<"get_context_data">>, "get_template_names")
    /\ UNCHANGED <<posts, request_vars, _category, object, object_list, template, toolbar_object>>

\* PostArchiveView.get_context_data: month, year and archive_date.
PostArchiveView_get_context_data ==
    /\ pc = "get_context_data" /\ view = "PostArchiveView"
    /\ LET month == IF "month" \in DOMAIN kwargs THEN Some(int(kwargs.month)) ELSE None
           year == IF "year" \in DOMAIN kwargs THEN Some(int(kwargs.year)) ELSE None
           archive_date ==
               IF year # None /\ The(year) # 0
               THEN "archive_date" :>
                        [year |-> The(year),
                         month |-> IF month # None /\ The(month) # 0 THEN The(month) ELSE 1,
                         day |-> 1]
               ELSE <<>>
       IN  ListContext(archive_date @@ ("month" :> month) @@ ("year" :> year),
                       <<"get_context_data">>, "get_template_names")
    /\ UNCHANGED <<posts, request_vars, _category, object, object_list, template, toolbar_object>>

\* TaggedListView.get_context_data: Tag is looked up among the module's names.
TaggedListView_get_context_data ==
    /\ pc = "get_context_data" /\ view = "TaggedListView"
    /\ LET has_tag == "tag" \in DOMAIN kwargs
           r == QuerySetGet({ t \in TagRows : t.slug = kwargs.tag })
           tagged_entries == IF has_tag THEN Some(kwargs.tag) ELSE None
       IN  IF has_tag /\ "Tag" \notin ModuleGlobals
           THEN /\ Raise("NameError", <<"get_context_data">>, "done")
                /\ UNCHANGED <<page_template, paginate_by, context>>
           ELSE IF has_tag /\ r.exc # ""
           THEN /\ Raise(r.exc, <<"get_context_data">>, "done")
                /\ UNCHANGED <<page_template, paginate_by, context>>
           ELSE ListContext((IF has_tag THEN "tag" :> The(r.value) ELSE <<>>)
                               @@ ("tagged_entries" :> tagged_entries),
                            <<"get_context_data">>, "get_template_names")
    /\ UNCHANGED <<posts, request_vars, _category, object, object_list, template, toolbar_object>>

\* AuthorEntriesView.get_context_data: the user, by USERNAME_FIELD.
AuthorEntriesView_get_context_data ==
    /\ pc = "get_context_data" /\ view = "AuthorEntriesView"
    /\ LET r == QuerySetGet({ u \in User : u.username = kwargs.username })
       IN  IF r.exc # ""
           THEN /\ Raise(r.exc, <<"get_context_data">>, "done")
                /\ UNCHANGED <<page_template, paginate_by, context>>
           ELSE ListContext("author" :> The(r.value), <<"get_context_data">>, "get_template_names")
    /\ UNCHANGED <<posts, request_vars, _category, object, object_list, template, toolbar_object>>

\* render_to_response of a list view: AjaxListMixin.get_template_names.
ListView_render_to_response ==
    /\ pc = "get_template_names" /\ view \in ListViews
    /\ template' = AjaxListMixin_get_template_names(request, page_template, config, view)
    /\ events' = Append(events, "get_template_names")
    /\ outcome' = "rendered"
    /\ pc' = "done"
    /\ UNCHANGED <<posts, request_vars, page_template, _category, object, object_list,
                   paginate_by, context, toolbar_object>>

\* PostDetailView.get: the toolbar, when the request has one, is handed
\* get_object() before DetailView.get runs.
PostDetailView_get ==
    /\ pc = "get" /\ view = "PostDetailView"
    /\ IF has_toolbar(request)
       THEN LET r == PostDetailView_get_object(posts, request, language, kwargs)
            IN  IF r.exc # ""
                THEN /\ Raise(r.exc, <<"get", "get_object", "get_queryset">>, "done")
                     /\ object_list' = Some(PostDetailView_get_queryset(posts, request))
                     /\ UNCHANGED toolbar_object
                ELSE /\ toolbar_object' = r.value
                     /\ object_list' = Some(PostDetailView_get_queryset(posts, request))
                     /\ events' = events \o <<"get", "get_object", "get_queryset", "set_object">>
                     /\ pc' = "get_object"
                     /\ UNCHANGED outcome
       ELSE /\ events' = events \o <<"get">>
            /\ pc' = "get_object"
            /\ UNCHANGED <<toolbar_object, object_list, outcome>>
    /\ UNCHANGED <<posts, request_vars, page_template, _category, object, paginate_by,
                   context, template>>

\* DetailView.get: self.object = self.get_object()
DetailView_get ==
    /\ pc = "get_object" /\ view = "PostDetailView"
    /\ LET r == PostDetailView_get_object(posts, request, language, kwargs)
       IN  IF r.exc # ""
           THEN /\ Raise(r.exc, <<"get_object", "get_queryset">>, "done")
                /\ object_list' = Some(PostDetailView_get_queryset(posts, request))
                /\ UNCHANGED object
           ELSE /\ object' = r.value
                /\ object_list' = Some(PostDetailView_get_queryset(posts, request))
                /\ events' = events \o <<"get_object", "get_queryset">>
                /\ pc' = "get_context_data"
                /\ UNCHANGED outcome
    /\ UNCHANGED <<posts, request_vars, page_template, _category, paginate_by, context,
                   template, toolbar_object>>

\* PostDetailView.get_context_data: the object, its meta, the placeholder
\* flag; the post is recorded on the request.
PostDetailView_get_context_data ==
    /\ pc = "get_context_data" /\ view = "PostDetailView"
    /\ LET r == PostDetailView_get_object(posts, request, language, kwargs)
       IN  IF r.exc # ""
           THEN /\ Raise(r.exc, <<"get_context_data", "get_object", "get_queryset">>, "done")
                /\ UNCHANGED <<context, request>>
           ELSE /\ context' = Some(("use_placeholder" :> USE_PLACEHOLDER)
                                    @@ ("meta" :> [as_meta |-> The(r.value).pk])
                                    @@ ("object" :> The(object)) @@ ("post" :> The(object)))
                /\ request' = [request EXCEPT !.current_post = r.value]
                /\ events' = events \o <<"get_context_data", "get_object", "get_queryset",
                                         "get_object", "get_queryset">>
                /\ pc' = "get_template_names"
                /\ UNCHANGED outcome
    /\ UNCHANGED <<posts, view, language, kwargs, namespace, config, initkwargs, page_template, _category,
                   object, object_list, paginate_by, template, toolbar_object>>

\* render_to_response of the detail view: BaseBlogView.get_template_names.
DetailView_render_to_response ==
    /\ pc = "get_template_names" /\ view = "PostDetailView"
    /\ template' = Some(BaseBlogView_get_template_names(config, base_template_name(view)))
    /\ events' = Append(events, "get_template_names")
    /\ outcome' = "rendered"
    /\ pc' = "done"
    /\ UNCHANGED <<posts, request_vars, page_template, _category, object, object_list,
                   paginate_by, context, toolbar_object>>

\* CategoryEntriesView.get that goes straight to ListView.get.
CategoryEntriesView_get_inherited(ok_pc, exc_pc) ==
    /\ view = "CategoryEntriesView"
    /\ events' = events \o <<"get">>
    /\ pc' = ok_pc
    /\ UNCHANGED <<toolbar_object, _category, outcome>>
    /\ UNCHANGED <<posts, request_vars, page_template, object, object_list, paginate_by,
                   context, template>>

\* CategoryEntriesView.get up to its call of ListView.get: the toolbar, when
\* the request has one, is handed self.category.
CategoryEntriesView_get(ok_pc, exc_pc) ==
    /\ view = "CategoryEntriesView"
    /\ IF has_toolbar(request)
       THEN LET c == category(_category, language, kwargs)
            IN  IF c.exc # ""
                THEN /\ Raise(c.exc, <<"get">> \o c.log, exc_pc)
                     /\ UNCHANGED <<toolbar_object, _category>>
                ELSE /\ toolbar_object' = c.value
                     /\ _category' = c.cache
                     /\ events' = events \o <<"get">> \o c.log \o <<"set_object">>
                     /\ pc' = ok_pc
                     /\ UNCHANGED outcome
       ELSE /\ events' = events \o <<"get">>
            /\ pc' = ok_pc
            /\ UNCHANGED <<toolbar_object, _category, outcome>>
    /\ UNCHANGED <<posts, request_vars, page_template, object, object_list, paginate_by,
                   context, template>>

\* CategoryEntriesView.get_queryset
CategoryEntriesView_get_queryset_call(ok_pc, exc_pc) ==
    /\ view = "CategoryEntriesView"
    /\ LET c == IF "category" \in DOMAIN kwargs
                THEN category(_category, language, kwargs)
                ELSE [exc |-> "", value |-> None, cache |-> _category, log |-> <<>>]
       IN  IF c.exc # ""
           THEN /\ Raise(c.exc, <<"get_queryset">> \o c.log, exc_pc)
                /\ UNCHANGED <<object_list, _category>>
           ELSE /\ object_list' = Some(CategoryEntriesView_get_queryset(
                                           posts, request, namespace, language, kwargs, c.value))
                /\ _category' = c.cache
                /\ events' = events \o <<"get_queryset">> \o c.log
                /\ pc' = ok_pc
                /\ UNCHANGED outcome
    /\ SetCurrentNamespace
    /\ UNCHANGED <<posts, view, language, kwargs, namespace, config, initkwargs, page_template, object,
                   paginate_by, context, template, toolbar_object>>

\* CategoryEntriesView.get_context_data; ListView.get_context_data needs the
\* object_list that get left on the instance.
CategoryEntriesView_get_context_data_call(ok_pc, exc_pc) ==
    /\ view = "CategoryEntriesView"
    /\ LET c == category(_category, language, kwargs)
       IN  IF c.exc # ""
           THEN /\ Raise(c.exc, <<"get_context_data">> \o c.log, exc_pc)
                /\ UNCHANGED <<page_template, paginate_by, context, _category>>
           ELSE IF object_list = None
           THEN /\ Raise("AttributeError", <<"get_context_data">> \o c.log, exc_pc)
                /\ _category' = c.cache
                /\ UNCHANGED <<page_template, paginate_by, context>>
           ELSE /\ ListContext("category" :> The(c.value), <<"get_context_data">> \o c.log, ok_pc)
                /\ _category' = c.cache
    /\ UNCHANGED <<posts, request_vars, object, object_list, template, toolbar_object>>

\* The three methods as the request runs them.
CategoryEntriesView_get_step ==
    pc = "get" /\ CategoryEntriesView_get("get_queryset", "done")

CategoryEntriesView_get_queryset_step ==
    pc = "get_queryset" /\ CategoryEntriesView_get_queryset_call("get_context_data", "done")

CategoryEntriesView_get_context_data_step ==
    pc = "get_context_data" /\ CategoryEntriesView_get_context_data_call("get_template_names", "done")

\* The response is returned; the next request gets a new view instance.
Finish ==
    /\ pc = "done"
    /\ pc' = "idle"
    /\ view' = "none"
    /\ request' = EmptyRequest
    /\ language' = "en"
    /\ kwargs' = <<>>
    /\ namespace' = ""
    /\ config' = None
    /\ initkwargs' = <<>>
    /\ page_template' = None
    /\ _category' = None
    /\ object' = None
    /\ object_list' = None
    /\ paginate_by' = None
    /\ context' = None
    /\ template' = None
    /\ toolbar_object' = None
    /\ events' = <<>>
    /\ outcome' = "pending"
    /\ UNCHANGED posts

Next ==
    \/ Dispatch
    \/ PostDetailView_get
    \/ DetailView_get
    \/ CategoryEntriesView_get_step
    \/ PostListView_get_queryset
    \/ PostArchiveView_get_queryset_step
    \/ TaggedListView_get_queryset_step
    \/ AuthorEntriesView_get_queryset_step
    \/ CategoryEntriesView_get_queryset_step
    \/ PostListView_get_context_data
    \/ PostDetailView_get_context_data
    \/ PostArchiveView_get_context_data
    \/ TaggedListView_get_context_data
    \/ AuthorEntriesView_get_context_data
    \/ CategoryEntriesView_get_context_data_step
    \/ ListView_render_to_response
    \/ DetailView_render_to_response
    \/ Finish

Spec == Init /\ [][Next]_vars

-----------------------------------------------------------------------------
\* One CategoryEntriesView instance whose get, get_queryset and
\* get_context_data are called directly, in any order.

Calls == Len(SelectSeq(events, LAMBDA e : e \in {"get", "get_queryset", "get_context_data"}))

InitCalls ==
    /\ posts \in { db \in SUBSET PostUniverse : Cardinality(db) <= MaxPosts }
    /\ view = "CategoryEntriesView"
    /\ \E tb \in Toolbars : request = [EmptyRequest EXCEPT !.toolbar = tb]
    /\ language \in Languages
    /\ kwargs \in KwargsOf("CategoryEntriesView")
    /\ \E app \in AppInstances : namespace = app[1] /\ config = app[2]
    /\ initkwargs = <<>>
    /\ page_template = None
    /\ _category = None
    /\ object = None
    /\ object_list = None
    /\ paginate_by = None
    /\ context = None
    /\ template = None
    /\ toolbar_object = None
    /\ events = <<>>
    /\ outcome = "pending"
    /\ pc = "direct"

Call_get ==
    pc = "direct" /\ Calls < MaxCalls /\ CategoryEntriesView_get("direct", "direct")

Call_get_queryset ==
    pc = "direct" /\ Calls < MaxCalls /\ CategoryEntriesView_get_queryset_call("direct", "direct")

Call_get_context_data ==
    pc = "direct" /\ Calls < MaxCalls /\ CategoryEntriesView_get_context_data_call("direct", "direct")

NextCalls == Call_get \/ Call_get_queryset \/ Call_get_context_data

SpecCalls == InitCalls /\ [][NextCalls]_vars

-----------------------------------------------------------------------------
\* What the views are expected to return, stated on the stored rows.

Editing == \E tb \in request.toolbar : tb.edit_mode
HasToolbar == \E tb \in request.toolbar : TRUE
InBase(p) == p \in posts /\ p.app_config = namespace /\ language \in p.languages
Base == { p \in posts : InBase(p) /\ (Editing \/ p.publish) }

YearOf(seg) == 1000 * seg[1] + 100 * seg[2] + 10 * seg[3] + seg[4]
MonthOf(seg) == IF Len(seg) = 1 THEN seg[1] ELSE 10 * seg[1] + seg[2]

MatchingCategories ==
    { c \in BlogCategory : c.slug = kwargs.category /\ language \in c.languages }

\* The view's own selection of a post, the publish state aside.
Narrowed(p) ==
    CASE view = "PostDetailView" -> TRUE
      [] view = "PostListView" -> InBase(p)
      [] view = "PostArchiveView" ->
            /\ InBase(p)
            /\ "year" \in DOMAIN kwargs => p.date_published.year = YearOf(kwargs.year)
            /\ "month" \in DOMAIN kwargs => p.date_published.month = MonthOf(kwargs.month)
      [] view = "TaggedListView" -> InBase(p) /\ kwargs.tag \in p.tags
      [] view = "AuthorEntriesView" -> InBase(p) /\ p.author = kwargs.username
      [] view = "CategoryEntriesView" ->
            InBase(p) /\ \E c \in MatchingCategories : c.pk \in p.categories
      [] OTHER -> FALSE

InEvents(e) == \E i \in DOMAIN events : events[i] = e
\* Every occurrence of b in the log has an a before it.
Before(a, b) == \A i \in DOMAIN events : events[i] = b => \E j \in 1..(i - 1) : events[j] = a
Failed == outcome \in {"Http404", "DoesNotExist", "MultipleObjectsReturned"}

\* C1: in each of the six views the queryset of a non-editing request holds
\* published posts only, and the queryset of a request whose toolbar is in
\* edit mode is the view's selection with no publish filter.
C1_PublishFilter ==
    object_list # None =>
        /\ ~Editing => \A p \in The(object_list) : p.publish
        /\ Editing => The(object_list) = { p \in posts : Narrowed(p) }

C1_Witness ==
    /\ object_list # None
    /\ request.toolbar = Some([edit_mode |-> FALSE])
    /\ The(object_list) # {}
    /\ \E p \in posts : ~p.publish /\ Narrowed(p)

\* C2: PostListView returns exactly the posts of the namespace with a
\* translation in the active language, the unpublished ones only in edit mode.
C2_PostList ==
    view = "PostListView" /\ object_list # None =>
        The(object_list) =
            { p \in posts : /\ p.app_config = namespace
                            /\ language \in p.languages
                            /\ (p.publish \/ Editing) }

C2_Witness ==
    /\ view = "PostListView"
    /\ Editing
    /\ object_list # None
    /\ \E p, q \in The(object_list) : p.publish /\ ~q.publish

\* C3: a rendered list request selects the page-fragment template when it is
\* an AJAX request whose querystring_key is the view's key, the normal
\* template otherwise; the fragment path is in the context either way.
C3_TemplateSelection ==
    view \in ListViews /\ outcome = "rendered" =>
        LET ajaxPage == /\ request.is_ajax
                        /\ "querystring_key" \in DOMAIN request.REQUEST
                              => request.REQUEST.querystring_key = "page"
            fragment == IF "page_template" \in DOMAIN initkwargs
                        THEN The(initkwargs.page_template)
                        ELSE "djangocms_blog/post_list_page.html"
            prefix == IF \E c \in config : c.template_prefix # ""
                      THEN The(config).template_prefix ELSE "djangocms_blog"
        IN  /\ template # None
            /\ The(template) = IF ajaxPage THEN fragment ELSE prefix \o "/post_list.html"
            /\ "page_template" \in DOMAIN The(context)
            /\ The(context).page_template = fragment

C3_Witness ==
    /\ view \in ListViews /\ outcome = "rendered"
    /\ request.is_ajax
    /\ "querystring_key" \notin DOMAIN request.REQUEST
    /\ "page_template" \notin DOMAIN initkwargs
    /\ template = Some("djangocms_blog/post_list_page.html")

\* C4: PostArchiveView returns the base set narrowed to the month and year of
\* the URL, to the year alone, or not at all.
C4_Archive ==
    view = "PostArchiveView" /\ object_list # None =>
        The(object_list) =
            IF "year" \in DOMAIN kwargs /\ "month" \in DOMAIN kwargs
            THEN { p \in Base : /\ p.date_published.year = YearOf(kwargs.year)
                                /\ p.date_published.month = MonthOf(kwargs.month) }
            ELSE IF "year" \in DOMAIN kwargs
            THEN { p \in Base : p.date_published.year = YearOf(kwargs.year) }
            ELSE IF "month" \in DOMAIN kwargs
            THEN The(object_list)
            ELSE Base

C4_Witness ==
    /\ view = "PostArchiveView" /\ object_list # None
    /\ "year" \in DOMAIN kwargs /\ "month" \in DOMAIN kwargs
    /\ The(object_list) # {}
    /\ \E p \in Base : p \notin The(object_list)

\* C5: every list view paginates by the app config's paginate_by when it is
\* set and by the PAGINATION setting otherwise.
C5_PaginateBy ==
    view \in ListViews /\ paginate_by # None =>
        The(paginate_by) = IF \E c \in config : c.paginate_by # 0
                           THEN The(config).paginate_by ELSE PAGINATION

\* C6: CategoryEntriesView renders posts of the one matching category only,
\* and ends with DoesNotExist on no match and MultipleObjectsReturned on
\* several, rendering nothing.
C6_CategoryEntries ==
    view = "CategoryEntriesView" /\ pc = "done" =>
        IF Cardinality(MatchingCategories) = 1
        THEN /\ outcome = "rendered"
             /\ \A p \in The(object_list) :
                   p \in Base /\ The(MatchingCategories).pk \in p.categories
        ELSE /\ outcome = IF MatchingCategories = {} THEN "DoesNotExist"
                          ELSE "MultipleObjectsReturned"
             /\ context = None
             /\ template = None

C6_Witness ==
    /\ view = "CategoryEntriesView" /\ pc = "done"
    /\ Cardinality(MatchingCategories) = 2
    /\ outcome = "MultipleObjectsReturned"

\* C7: AuthorEntriesView renders the known author's posts with the user in
\* the context, and answers an unknown username with Http404.
C7_AuthorEntries ==
    view = "AuthorEntriesView" /\ pc = "done" =>
        IF \E u \in User : u.username = kwargs.username
        THEN /\ outcome = "rendered"
             /\ \A p \in The(object_list) : p \in Base /\ p.author = kwargs.username
             /\ The(context).author = [username |-> kwargs.username]
        ELSE outcome = "Http404"

\* C8: TaggedListView renders the posts of an existing tag with the Tag and
\* the slug in the context, and answers an unknown tag with Http404.
C8_TaggedList ==
    view = "TaggedListView" /\ pc = "done" =>
        IF \E t \in TagRows : t.slug = kwargs.tag
        THEN /\ outcome = "rendered"
             /\ \A p \in The(object_list) : p \in Base /\ kwargs.tag \in p.tags
             /\ The(context).tag = [slug |-> kwargs.tag]
             /\ The(context).tagged_entries = Some(kwargs.tag)
        ELSE outcome = "Http404"

\* What C9 says of PostDetailView and CategoryEntriesView apart from the
\* place of get_queryset: the toolbar gets the rendered object before the
\* context and the response, gets nothing when the lookup fails, and is not
\* called when the request has none.
C9_Common ==
    /\ HasToolbar =>
          /\ Before("set_object", "get_context_data")
          /\ Before("set_object", "get_template_names")
    /\ HasToolbar /\ outcome = "rendered" =>
          toolbar_object =
              Some(IF view = "PostDetailView" THEN The(context).post ELSE The(context).category)
    /\ Failed => ~InEvents("set_object") /\ toolbar_object = None
                    /\ context = None /\ template = None
    /\ ~HasToolbar => ~InEvents("set_object") /\ toolbar_object = None

\* C9 as claimed: in both views set_object comes before the queryset is built.
C9_SetObjectFirst ==
    view \in {"PostDetailView", "CategoryEntriesView"} =>
        /\ C9_Common
        /\ InEvents("set_object") => Before("set_object", "get_queryset")

\* C9 as amended: set_object comes before the context and the response in both
\* views and before get_queryset in CategoryEntriesView; PostDetailView builds
\* its queryset inside get_object, before set_object is called.
C9_SetObjectBeforeRender ==
    view \in {"PostDetailView", "CategoryEntriesView"} =>
        /\ C9_Common
        /\ view = "CategoryEntriesView" /\ HasToolbar => Before("set_object", "get_queryset")
        /\ HasToolbar /\ outcome = "rendered" => InEvents("set_object")
        /\ view = "PostDetailView" => Before("get_queryset", "set_object")

C9_Witness ==
    /\ view = "PostDetailView" /\ outcome = "rendered"
    /\ HasToolbar
    /\ toolbar_object = Some(The(context).post)
    /\ events[3] = "get_queryset" /\ events[4] = "set_object"

\* The category lookups made so far.
C10_Lookups == Len(SelectSeq(events, LAMBDA e : e = "category.get"))

\* C10: on one CategoryEntriesView instance, whatever the order of the get,
\* get_queryset and get_context_data calls, a category that was found was
\* looked up once, and every read of it gave the same object.
C10_Memoized ==
    /\ [](/\ _category # None => C10_Lookups = 1
          /\ toolbar_object # None => toolbar_object = _category
          /\ context # None => Some(The(context).category) = _category)
    /\ [][_category # None => _category' = _category]_vars

C10_Witness ==
    /\ _category # None
    /\ Calls = 3
    /\ toolbar_object = _category
    /\ context # None /\ Some(The(context).category) = _category

====
